---- MODULE Spec2Model ----
(***************************************************************************)
(* Model of backend/src/controllers/uploadController.js: the multer disk   *)
(* storage configuration, the upload / serve / delete handlers and the     *)
(* Excel import pipeline.                                                   *)
(*                                                                         *)
(* Strings that the code concatenates, splits or inspects (file names,     *)
(* request parameters, paths) are sequences of one-character strings, so   *)
(* that template strings, path.extname and path.join are computed the way  *)
(* the code computes them.  A path is a sequence of segments from the      *)
(* filesystem root.                                                        *)
(*                                                                         *)
(* Every handler runs its synchronous part in one step: Node runs a        *)
(* callback to completion, and the only `await`s of importExcelData wait   *)
(* on promises that are already resolved (microtasks), so no other         *)
(* request's handler runs in between.  The multer middleware and the route *)
(* handler are separate steps.  What a read stream does after serveFile    *)
(* has returned lies outside the model.                                    *)
(*                                                                         *)
(* Three specifications: Spec is the request handlers over the store,      *)
(* within one value of Date.now(); SpecNames is the naming of uploads as   *)
(* time passes and files are deleted; SpecRows is the import of every row  *)
(* sequence up to MaxRows.                                                 *)
(***************************************************************************)
EXTENDS Integers, Sequences, FiniteSets, Bags, TLC

\* ------------------------------------------------------------------ bounds
MaxClock == 10      \* Date.now() runs from 9 up to MaxClock (SpecNames)
MaxFiles == 1       \* files accepted over a run of Spec
MaxNames == 3       \* files accepted over a run of SpecNames
MaxRows == 2        \* rows of a parsed sheet (row-level specification)

\* ----------------------------------------------------------- string helpers
RECURSIVE Flatten(_)
Flatten(ss) == IF ss = <<>> THEN <<>> ELSE Head(ss) \o Flatten(Tail(ss))

\* String(n) for a non-negative integer, as the template string prints it.
Digit(d) == <<"0", "1", "2", "3", "4", "5", "6", "7", "8", "9">>[d + 1]
RECURSIVE ToDigits(_)
ToDigits(n) == IF n < 10 THEN <<Digit(n)>> ELSE ToDigits(n \div 10) \o <<Digit(n % 10)>>

\* str.split('/'): cur collects the current piece, acc the finished ones.
RECURSIVE SplitFrom(_, _, _, _)
SplitFrom(s, i, cur, acc) ==
  IF i > Len(s) THEN Append(acc, cur)
  ELSE IF s[i] = "/" THEN SplitFrom(s, i + 1, <<>>, Append(acc, cur))
  ELSE SplitFrom(s, i + 1, Append(cur, s[i]), acc)

Split(s) == SplitFrom(s, 1, <<>>, <<>>)

\* s.lastIndexOf('.') among the first n characters, from 1; 0 when there is none.
RECURSIVE LastDotUpTo(_, _)
LastDotUpTo(s, n) ==
  IF n = 0 THEN 0
  ELSE IF s[n] = "." THEN n
  ELSE LastDotUpTo(s, n - 1)

LastDot(s) == LastDotUpTo(s, Len(s))

\* path.extname: from the last "." of the last segment to its end; empty when
\* there is no "." or the "." is the first character of the segment.
ExtName(name) ==
  LET segs == Split(name)
      base == segs[Len(segs)]
      d    == LastDot(base)
  IN IF d <= 1 THEN <<>> ELSE SubSeq(base, d, Len(base))

\* path.normalize on the segments of an absolute path: "" and "." are dropped,
\* ".." removes the segment before it.
RECURSIVE NormalizeFrom(_, _)
NormalizeFrom(stack, segs) ==
  IF segs = <<>> THEN stack
  ELSE LET s == Head(segs) IN
       NormalizeFrom(
         IF s = <<>> \/ s = <<".">> THEN stack
         ELSE IF s = <<".", ".">>
              THEN (IF stack = <<>> THEN stack ELSE SubSeq(stack, 1, Len(stack) - 1))
              ELSE Append(stack, s),
         Tail(segs))

\* path.join(...parts): the parts joined with "/" and normalized.
PathJoin(parts) == NormalizeFrom(<<>>, Flatten([i \in 1..Len(parts) |-> Split(parts[i])]))

\* ------------------------------------------------------------- the layout
\* __dirname of the controller: "/backend/src/controllers".
DirName ==
  <<"/", "b", "a", "c", "k", "e", "n", "d", "/", "s", "r", "c",
    "/", "c", "o", "n", "t", "r", "o", "l", "l", "e", "r", "s">>

\* '../../uploads'
UploadsRel == <<".", ".", "/", ".", ".", "/", "u", "p", "l", "o", "a", "d", "s">>

\* path.join(__dirname, '../../uploads'): "/backend/uploads"
uploadDir == PathJoin(<<DirName, UploadsRel>>)

\* path.join(__dirname, '../../uploads', filename).  Normalizing goes from left
\* to right, so it continues from the normalized uploads directory.
JoinUploads(filename) == NormalizeFrom(uploadDir, Split(filename))

\* A file of the deployment that is not an upload: "/backend/.env".
EnvFile == JoinUploads(<<".", ".", "/", ".", "e", "n", "v">>)

\* Directories that exist whatever the uploads directory does.
RECURSIVE Prefixes(_)
Prefixes(p) == IF p = <<>> THEN {<<>>} ELSE {p} \cup Prefixes(SubSeq(p, 1, Len(p) - 1))
BaseDirs == Prefixes(PathJoin(<<DirName>>))

\* ------------------------------------------------------------ Storage namer
\* uuidv4(): the token with index k, two hexadecimal characters wide here.  The
\* generator is taken at its contract: a token it returns differs from every
\* token it returned before.  k counts the tokens that went into the names of
\* accepted files; a token that went into a name multer removed again, or into
\* the id of a response, is not looked at again, and the model does not count
\* it.
Hex(d) == <<"0", "1", "2", "3", "4", "5", "6", "7", "8", "9", "a", "b", "c", "d", "e", "f">>[d + 1]
uuidv4(k) == <<Hex((k \div 16) % 16), Hex(k % 16)>>

\* `${Date.now()}${path.extname(file.originalname)}`
uniqueNameNoUuid(k, now, originalname) == ToDigits(now) \o ExtName(originalname)

\* `${uuidv4()}-${Date.now()}${path.extname(file.originalname)}`
uniqueName(k, now, originalname) ==
  uuidv4(k) \o <<"-">> \o ToDigits(now) \o ExtName(originalname)


\* ------------------------------------------------------- Acceptance policy
allowedTypes ==
  { "application/pdf",
    "application/msword",
    "application/vnd.openxmlformats-officedocument.wordprocessingml.document",
    "application/vnd.ms-powerpoint",
    "application/vnd.openxmlformats-officedocument.presentationml.presentation",
    "application/vnd.ms-excel",
    "application/vnd.openxmlformats-officedocument.spreadsheetml.sheet",
    "text/plain",
    "image/jpeg",
    "image/png",
    "image/gif" }

fileFilter(file) == file.mimetype \in allowedTypes

fileSize == 10 * 1024 * 1024
filesLimit == 5

allowedExcelTypes ==
  { "application/vnd.ms-excel",
    "application/vnd.openxmlformats-officedocument.spreadsheetml.sheet" }

\* The status the application's error middleware gives a multer rejection.
MulterErrorStatus == 400

\* ------------------------------------------------------------------ inputs
\* File parts a client sends: [originalname, mimetype, size].
XlsPart == [originalname |-> <<"r", ".", "x", "l", "s">>,
            mimetype |-> "application/vnd.ms-excel", size |-> 1]
PdfPart == [originalname |-> <<"n">>, mimetype |-> "application/pdf", size |-> 0]
ZipPart == [originalname |-> <<"z", ".", "z", "i", "p">>,
            mimetype |-> "application/zip", size |-> 1]
BigPart == [originalname |-> <<"b", ".", "x", "l", "s">>,
            mimetype |-> "application/vnd.ms-excel", size |-> fileSize + 1]
Parts == {XlsPart, PdfPart, ZipPart, BigPart}

SingleBodies == {<<>>} \cup {<<c>> : c \in Parts}
ArrayBodies ==
  { <<>>, <<PdfPart>>, <<XlsPart, PdfPart>>, <<XlsPart, XlsPart>>, <<XlsPart, ZipPart>>,
    <<PdfPart, BigPart>>, [i \in 1..(filesLimit + 1) |-> XlsPart] }

\* Cell values of a parsed row, tagged with their JavaScript type.
Undefined == [t |-> "undefined", s |-> "", n |-> 0]
Str(s) == [t |-> "string", s |-> s, n |-> 0]
Num(n) == [t |-> "number", s |-> "", n |-> n]

\* JavaScript truthiness of a cell value.
Truthy(c) == (c.t = "string" /\ c.s # "") \/ (c.t = "number" /\ c.n # 0)

RowOk == [isNull |-> FALSE, name |-> Str("A"), email |-> Str("a@x.com"),
          registration_no |-> Str("R1")]
RowNameOnly == [isNull |-> FALSE, name |-> Str("B"), email |-> Undefined,
                registration_no |-> Undefined]
RowEmptyEmail == [isNull |-> FALSE, name |-> Str("C"), email |-> Str(""),
                  registration_no |-> Str("R3")]
RowZeroReg == [isNull |-> FALSE, name |-> Str("D"), email |-> Str("d@x.com"),
               registration_no |-> Num(0)]
RowNoReg == [isNull |-> FALSE, name |-> Str("E"), email |-> Str("e@x.com"),
            registration_no |-> Undefined]
RowNull == [isNull |-> TRUE, name |-> Undefined, email |-> Undefined,
            registration_no |-> Undefined]

\* What XLSX.readFile + sheet_to_json make of an uploaded file: a thrown
\* error, or the rows of the first sheet (always objects).
Corrupt == [ok |-> FALSE, data |-> <<>>]
Sheet(rows) == [ok |-> TRUE, data |-> rows]
Sheets == {Corrupt, Sheet(<<RowOk, RowNameOnly>>), Sheet(<<RowZeroReg>>)}

ImportTypes == {"students", "scores", "attendance", "grades", ""}

\* Row sequences for importStudentData taken as a function of any array.
RowKinds == {RowOk, RowNameOnly, RowEmptyEmail, RowZeroReg, RowNoReg, RowNull}
RowSeqs == UNION {[1..n -> RowKinds] : n \in 0..MaxRows}

\* ------------------------------------------------------------------- state
VARIABLES
  files,      \* paths of the regular files that exist
  dirs,       \* paths of the directories that exist
  clock,      \* Date.now()
  names,      \* storage names given to accepted files, in order
  pending,    \* requests with stored files whose handler has not run yet
  unlinked,   \* bag of the paths after whose unlink deleteFile answered 200
  resp        \* what the last step did and answered (status 0: no answer):
              \*   target    the path the handler computed for its file
              \*   existed   whether a regular file was there when the step began
              \*   touched   the paths it stat'ed, opened or unlinked
              \*   blobs     the paths multer stored the request's files under
              \*   parsed    whether the uploaded file was there and readable

vars == <<files, dirs, clock, names, pending, unlinked, resp>>

NoReport == [totalRows |-> 0, successCount |-> 0, errorCount |-> 0, errors |-> <<>>]

NoResp ==
  [op |-> "none", status |-> 0, message |-> "", target |-> <<>>, existed |-> FALSE,
   touched |-> {}, blobs |-> {}, importType |-> "", mimetype |-> "", parsed |-> FALSE,
   importer |-> "none", report |-> NoReport, data |-> <<>>]

Init ==
  /\ files = {EnvFile}
  /\ dirs = BaseDirs
  /\ clock = 9
  /\ names = <<>>
  /\ pending = {}
  /\ unlinked = EmptyBag
  /\ resp = NoResp

Range(s) == {s[i] : i \in 1..Len(s)}

\* ------------------------------------------------------------------ multer
\* storage.destination + storage.filename for one part: its name and the path
\* it is written to.
StoredFile(part, k, now) ==
  LET filename == uniqueName(k, now, part.originalname) IN
  [filename |-> filename, mimetype |-> part.mimetype, path |-> JoinUploads(filename)]

\* The multer middleware over the file parts of one request, in order: each
\* part passes fileFilter, is given a name and written; a part over the size
\* limit, a part the filter refuses, or a part beyond the files limit aborts
\* the request, and the files written so far are removed.
RECURSIVE MulterRun(_, _, _, _, _)
MulterRun(parts, i, k, now, acc) ==
  IF i > Len(parts) THEN acc
  ELSE IF i > filesLimit THEN [acc EXCEPT !.error = "Too many files"]
  ELSE IF ~fileFilter(parts[i]) THEN [acc EXCEPT !.error = "Invalid file type"]
  ELSE LET f == StoredFile(parts[i], k + Len(acc.stored), now)
           next == [acc EXCEPT !.stored = Append(@, f)]
       IN IF parts[i].size > fileSize
          THEN [next EXCEPT !.error = "File too large"]
          ELSE MulterRun(parts, i + 1, k, now, next)

upload(parts, k, now) == MulterRun(parts, 1, k, now, [stored |-> <<>>, error |-> ""])

\* The middleware accepts a request with files: they are on disk and the
\* handler is scheduled.  m is what upload made of the request's parts; max
\* bounds the files accepted over a run.
MulterAccept(route, m, max) ==
  LET n == Len(m.stored)
      paths == {m.stored[i].path : i \in 1..n}
      req == [route |-> route,
              files |-> [i \in 1..n |-> [filename |-> m.stored[i].filename,
                                         mimetype |-> m.stored[i].mimetype]]]
  IN /\ n > 0
     /\ m.error = ""
     /\ Len(names) + n <= max
     /\ files' = files \cup paths
     /\ dirs' = dirs \cup {uploadDir}
     /\ names' = names \o [i \in 1..n |-> m.stored[i].filename]
     /\ pending' = pending \cup {req}
     /\ resp' = [NoResp EXCEPT !.op = "multer", !.blobs = paths]
     /\ UNCHANGED <<clock, unlinked>>

\* The middleware refuses the request: what it wrote is removed again and the
\* error goes to the application's error middleware.
MulterReject(route, m) ==
  LET n == Len(m.stored)
  IN /\ m.error # ""
     /\ dirs' = IF n > 0 THEN dirs \cup {uploadDir} ELSE dirs
     /\ resp' = [NoResp EXCEPT !.op = "multer", !.status = MulterErrorStatus,
                               !.message = m.error,
                               !.blobs = {m.stored[i].path : i \in 1..n}]
     /\ UNCHANGED <<files, clock, names, pending, unlinked>>

\* Time passes.
Tick ==
  /\ clock < MaxClock
  /\ clock' = clock + 1
  /\ resp' = NoResp
  /\ UNCHANGED <<files, dirs, names, pending, unlinked>>

\* ----------------------------------------------------------- upload handlers
\* A request without a file part: multer stores nothing and passes it on.
NoFile(route) == [route |-> route, files |-> <<>>]

\* uploadSingleFile: 400 without a file, else the metadata of the stored file.
uploadSingleFile(req) ==
  /\ req.route = "single"
  /\ pending' = pending \ {req}
  /\ resp' = IF req.files = <<>>
             THEN [NoResp EXCEPT !.op = "uploadSingleFile", !.status = 400,
                                 !.message = "No file uploaded"]
             ELSE [NoResp EXCEPT !.op = "uploadSingleFile", !.status = 200,
                                 !.message = "File uploaded successfully",
                                 !.blobs = {JoinUploads(req.files[1].filename)}]
  /\ UNCHANGED <<files, dirs, clock, names, unlinked>>

\* uploadMultipleFiles: 400 without files, else one metadata record per file
\* (message: the constant part of `${req.files.length} files uploaded
\* successfully`).
uploadMultipleFiles(req) ==
  /\ req.route = "array"
  /\ pending' = pending \ {req}
  /\ resp' = IF Len(req.files) = 0
             THEN [NoResp EXCEPT !.op = "uploadMultipleFiles", !.status = 400,
                                 !.message = "No files uploaded"]
             ELSE [NoResp EXCEPT !.op = "uploadMultipleFiles", !.status = 200,
                                 !.message = "files uploaded successfully",
                                 !.blobs = {JoinUploads(req.files[i].filename) :
                                              i \in 1..Len(req.files)}]
  /\ UNCHANGED <<files, dirs, clock, names, unlinked>>

\* ------------------------------------------------------------ serve, delete
\* The values a client can put in the :filename parameter: a storage name it
\* was given, or any other text, "/" and ".." included.
FilenameParams ==
  Range(names) \cup
  { <<".", ".", "/", ".", "e", "n", "v">>,   \* "../.env"
    <<".">>,                                 \* "."
    <<"x">> }                                \* no such file

\* fs.existsSync on a store of regular files fs and directories ds.
existsSync(p, fs, ds) == p \in fs \/ p \in ds

\* serveFile: 404 when existsSync fails; else the path is stat'ed and a read
\* stream on it is piped to the response (a stream on a directory emits
\* 'error', for which no listener is registered).
ServeOutcome(filename, fs, ds) ==
  LET filePath == JoinUploads(filename) IN
  IF ~existsSync(filePath, fs, ds)
  THEN [filePath |-> filePath, status |-> 404, message |-> "File not found",
        stat |-> {}, stream |-> {}]
  ELSE IF filePath \in ds
  THEN [filePath |-> filePath, status |-> 0, message |-> "Unhandled 'error' event: EISDIR",
        stat |-> {filePath}, stream |-> {filePath}]
  ELSE [filePath |-> filePath, status |-> 200, message |-> "piped",
        stat |-> {filePath}, stream |-> {filePath}]

serveFile(filename) ==
  \E o \in {ServeOutcome(filename, files, dirs)} :
  /\ resp' = [NoResp EXCEPT !.op = "serveFile", !.status = o.status,
                            !.message = o.message, !.target = o.filePath,
                            !.existed = o.filePath \in files,
                            !.touched = o.stat \cup o.stream]
  /\ UNCHANGED <<files, dirs, clock, names, pending, unlinked>>

\* deleteFile without the existence check: unlinkSync throws on a path that
\* is not there.
DeleteOutcomeNoCheck(filename, fs, ds) ==
  LET filePath == JoinUploads(filename) IN
  IF filePath \in fs
  THEN [filePath |-> filePath, status |-> 200, message |-> "File deleted successfully",
        unlink |-> {filePath}]
  ELSE [filePath |-> filePath, status |-> 500, message |-> "Failed to delete file",
        unlink |-> {}]

\* deleteFile answering 200 without removing anything.
DeleteOutcomeNoUnlink(filename, fs, ds) ==
  LET filePath == JoinUploads(filename) IN
  IF ~existsSync(filePath, fs, ds)
  THEN [filePath |-> filePath, status |-> 404, message |-> "File not found",
        unlink |-> {}]
  ELSE [filePath |-> filePath, status |-> 200, message |-> "File deleted successfully",
        unlink |-> {}]

\* deleteFile: 404 when existsSync fails; unlinkSync removes a regular file
\* and throws on a directory, which the catch turns into 500.
DeleteOutcome(filename, fs, ds) ==
  LET filePath == JoinUploads(filename) IN
  IF ~existsSync(filePath, fs, ds)
  THEN [filePath |-> filePath, status |-> 404, message |-> "File not found",
        unlink |-> {}]
  ELSE IF filePath \in ds
  THEN [filePath |-> filePath, status |-> 500, message |-> "Failed to delete file",
        unlink |-> {}]
  ELSE [filePath |-> filePath, status |-> 200, message |-> "File deleted successfully",
        unlink |-> {filePath}]

deleteFile(filename) ==
  \E o \in {DeleteOutcome(filename, files, dirs)} :
  /\ files' = files \ o.unlink
  /\ unlinked' = IF o.status = 200 THEN unlinked (+) SetToBag({o.filePath}) ELSE unlinked
  /\ resp' = [NoResp EXCEPT !.op = "deleteFile", !.status = o.status,
                            !.message = o.message, !.target = o.filePath,
                            !.existed = o.filePath \in files,
                            !.touched = o.unlink]
  /\ UNCHANGED <<dirs, clock, names, pending>>

\* ------------------------------------------------------------------ import
MissingFields == "Missing required fields (name, email, registration_no)"
NullRowError == "Cannot read properties of null (reading 'name')"

\* `Row ${i + 1}: ${text}`
RowError(i, text) == <<"Row ", i + 1, ": ", text>>

\* One iteration of the loop without the `continue`: a rejected row falls
\* through and is counted as a success as well.
StudentStepNoContinue(acc, row, i) ==
  IF row.isNull
  THEN [acc EXCEPT !.errors = Append(@, RowError(i, NullRowError)),
                   !.errorCount = @ + 1]
  ELSE IF ~Truthy(row.name) \/ ~Truthy(row.email) \/ ~Truthy(row.registration_no)
  THEN [acc EXCEPT !.errors = Append(@, RowError(i, MissingFields)),
                   !.errorCount = @ + 1, !.successCount = @ + 1]
  ELSE [acc EXCEPT !.successCount = @ + 1]

\* One iteration of the loop of importStudentData on data[i] (i from 0):
\* reading a property of a null row throws, and the catch counts the row.
StudentStep(acc, row, i) ==
  IF row.isNull
  THEN [acc EXCEPT !.errors = Append(@, RowError(i, NullRowError)),
                   !.errorCount = @ + 1]
  ELSE IF ~Truthy(row.name) \/ ~Truthy(row.email) \/ ~Truthy(row.registration_no)
  THEN [acc EXCEPT !.errors = Append(@, RowError(i, MissingFields)),
                   !.errorCount = @ + 1]
  ELSE [acc EXCEPT !.successCount = @ + 1]

\* The loop with the try/catch around it instead of inside it: the first row
\* that throws is counted and ends the loop.
RECURSIVE StudentLoopAbort(_, _)
StudentLoopAbort(data, n) ==
  IF n = 0 THEN [successCount |-> 0, errorCount |-> 0, errors |-> <<>>]
  ELSE LET acc == StudentLoopAbort(data, n - 1) IN
       IF \E j \in 1..(n - 1) : data[j].isNull THEN acc
       ELSE StudentStep(acc, data[n], n - 1)

\* successCount, errorCount and errors after the first n iterations.
RECURSIVE StudentLoop(_, _)
StudentLoop(data, n) ==
  IF n = 0 THEN [successCount |-> 0, errorCount |-> 0, errors |-> <<>>]
  ELSE StudentStep(StudentLoop(data, n - 1), data[n], n - 1)

importStudentData(data) ==
  LET end == StudentLoop(data, Len(data)) IN
  [totalRows |-> Len(data), successCount |-> end.successCount,
   errorCount |-> end.errorCount, errors |-> end.errors]

importScoreData(data) ==
  [totalRows |-> Len(data), successCount |-> Len(data), errorCount |-> 0, errors |-> <<>>]

importAttendanceData(data) ==
  [totalRows |-> Len(data), successCount |-> Len(data), errorCount |-> 0, errors |-> <<>>]

ImportResult(status, message, importer, report, unlink) ==
  [status |-> status, message |-> message, importer |-> importer, report |-> report,
   unlink |-> unlink]

\* importExcelData with the switch's default falling into the students case.
ImportOutcomeDefaultStudents(req, importType, sheet, fs) ==
  IF req.files = <<>> THEN ImportResult(400, "No file uploaded", "none", NoReport, {})
  ELSE
    LET file == req.files[1]
        path == JoinUploads(file.filename)
    IN IF importType = ""
       THEN ImportResult(400, "Import type is required", "none", NoReport, {})
       ELSE IF file.mimetype \notin allowedExcelTypes
       THEN ImportResult(400, "Invalid file type. Only Excel files (.xls, .xlsx) are allowed.",
                         "none", NoReport, {})
       ELSE IF path \notin fs \/ ~sheet.ok
       THEN ImportResult(500, "Failed to import Excel data", "none", NoReport,
                         {path} \cap fs)
       ELSE IF importType = "scores"
       THEN ImportResult(200, "Excel import completed.", "scores",
                         importScoreData(sheet.data), {path})
       ELSE IF importType = "attendance"
       THEN ImportResult(200, "Excel import completed.", "attendance",
                         importAttendanceData(sheet.data), {path})
       ELSE ImportResult(200, "Excel import completed.", "students",
                         importStudentData(sheet.data), {path})

\* importExcelData: the three validation exits, XLSX.readFile (throws when the
\* file is gone or unreadable; the catch removes the file if it is there and
\* answers 500), the switch on importType, the cleanup and the 200 (message:
\* the constant head of the template string; the count it prints is in the
\* report).  An importType of "" stands for a missing or empty field.
ImportOutcome(req, importType, sheet, fs) ==
  IF req.files = <<>> THEN ImportResult(400, "No file uploaded", "none", NoReport, {})
  ELSE
    LET file == req.files[1]
        path == JoinUploads(file.filename)
    IN IF importType = ""
       THEN ImportResult(400, "Import type is required", "none", NoReport, {})
       ELSE IF file.mimetype \notin allowedExcelTypes
       THEN ImportResult(400, "Invalid file type. Only Excel files (.xls, .xlsx) are allowed.",
                         "none", NoReport, {})
       ELSE IF path \notin fs \/ ~sheet.ok
       THEN ImportResult(500, "Failed to import Excel data", "none", NoReport,
                         {path} \cap fs)
       ELSE IF importType = "students"
       THEN ImportResult(200, "Excel import completed.", "students",
                         importStudentData(sheet.data), {path})
       ELSE IF importType = "scores"
       THEN ImportResult(200, "Excel import completed.", "scores",
                         importScoreData(sheet.data), {path})
       ELSE IF importType = "attendance"
       THEN ImportResult(200, "Excel import completed.", "attendance",
                         importAttendanceData(sheet.data), {path})
       ELSE ImportResult(400, "Invalid import type", "none", NoReport, {})

importExcelData(req, importType, sheet) ==
  \E o \in {ImportOutcome(req, importType, sheet, files)} :
  \E path \in {IF req.files = <<>> THEN <<>> ELSE JoinUploads(req.files[1].filename)} :
     /\ req.route = "import"
     /\ pending' = pending \ {req}
     /\ files' = files \ o.unlink
     /\ resp' = [op |-> "importExcelData", status |-> o.status, message |-> o.message,
                 target |-> path, existed |-> path \in files, touched |-> o.unlink,
                 blobs |-> IF req.files = <<>> THEN {} ELSE {path},
                 importType |-> importType,
                 mimetype |-> IF req.files = <<>> THEN "" ELSE req.files[1].mimetype,
                 parsed |-> path \in files /\ sheet.ok,
                 importer |-> o.importer, report |-> o.report,
                 data |-> IF o.status = 200 THEN sheet.data ELSE <<>>]
     /\ UNCHANGED <<dirs, clock, names, unlinked>>

\* ----------------------------------------------------------- specifications
Routes == {"single", "array", "import"}
Bodies(route) == IF route = "array" THEN ArrayBodies ELSE SingleBodies

\* The requests a handler can be called with: one whose files multer stored,
\* or one that came without a file part.
Requests(route) == pending \cup {NoFile(route)}

Accept ==
  \E route \in Routes : \E parts \in Bodies(route) :
    MulterAccept(route, upload(parts, Len(names), clock), MaxFiles)
Reject ==
  \E route \in Routes : \E parts \in Bodies(route) :
    MulterReject(route, upload(parts, Len(names), clock))
UploadSingle == \E req \in Requests("single") : uploadSingleFile(req)
UploadMultiple == \E req \in Requests("array") : uploadMultipleFiles(req)
Serve == \E filename \in FilenameParams : serveFile(filename)
Delete == \E filename \in FilenameParams : deleteFile(filename)
Import ==
  \E req \in Requests("import") : \E importType \in ImportTypes : \E sheet \in Sheets :
    importExcelData(req, importType, sheet)

Next ==
  \/ Accept
  \/ Reject
  \/ UploadSingle
  \/ UploadMultiple
  \/ Serve
  \/ Delete
  \/ Import

Spec == Init /\ [][Next]_vars

\* Naming over time: batches of one and two files, the clock, and deletes of
\* stored files.
AcceptUploads ==
  \E parts \in ArrayBodies :
    MulterAccept("array", upload(parts, Len(names), clock), MaxNames)
DeleteStored == \E filename \in Range(names) : deleteFile(filename)

NextNames ==
  \/ Tick
  \/ AcceptUploads
  \/ DeleteStored

SpecNames == Init /\ [][NextNames]_vars

\* importStudentData and its callers as functions of the parsed rows: an
\* accepted spreadsheet upload waits for its handler, and the handler runs on
\* every importType and every row sequence up to MaxRows, null entries
\* included.
RowsUpload == StoredFile(XlsPart, 0, 9)

InitRows ==
  /\ files = {EnvFile, RowsUpload.path}
  /\ dirs = BaseDirs \cup {uploadDir}
  /\ clock = 9
  /\ names = <<RowsUpload.filename>>
  /\ pending = {[route |-> "import",
                 files |-> <<[filename |-> RowsUpload.filename,
                              mimetype |-> RowsUpload.mimetype]>>]}
  /\ unlinked = EmptyBag
  /\ resp = NoResp

ImportRows ==
  \E req \in pending : \E importType \in ImportTypes : \E rows \in RowSeqs :
    importExcelData(req, importType, Sheet(rows))

NextRows == ImportRows

SpecRows == InitRows /\ [][NextRows]_vars

\* ------------------------------------------------------------------ claims
IsWithin(dir, p) == Len(p) >= Len(dir) /\ SubSeq(p, 1, Len(dir)) = dir

WasImport == resp.op = "importExcelData"
StudentsDone == WasImport /\ resp.status = 200 /\ resp.importer = "students"
RecognizedTypes == {"students", "scores", "attendance"}

\* C1: once importExcelData has answered a request that carried a file, on
\* whatever exit, the uploaded file is no longer in the store.
C1_SourceGoneAfterImport ==
  (WasImport /\ resp.blobs # {}) => resp.target \notin files

\* C2: when a request is answered 400, no blob of that request is in the
\* store.
C2_NoBlobAt400 ==
  resp.status = 400 => resp.blobs \cap files = {}

\* C3: whatever the filename parameter, serveFile and deleteFile stat, open
\* and unlink only paths inside the uploads directory.
C3_ConfinedToUploads ==
  resp.op \in {"serveFile", "deleteFile"} =>
    \A p \in resp.touched : IsWithin(uploadDir, p)

\* C4: the storage names given to accepted files are pairwise distinct, over
\* any run of uploads, same-millisecond uploads and uploads after a delete
\* included: a name is never given twice.
C4_NamesDistinct ==
  \A i, j \in 1..Len(names) : i # j => names[i] # names[j]

\* Two files were accepted within one value of Date.now(), the second after a
\* stored file had been deleted.
C4_Witness ==
  /\ resp.op = "multer" /\ resp.status = 0
  /\ Len(names) >= 2
  /\ clock = 9
  /\ unlinked # EmptyBag

\* C5: a deleteFile that answers 200 removed a file that was there; from then
\* on every serveFile and deleteFile for that path answers 404; a deleteFile
\* for a path that does not exist answers 404 and leaves the store as it was.
C5_DeleteThenNotFound ==
  [][ /\ resp'.op = "deleteFile" =>
           /\ resp'.status = 200 => (resp'.target \in files /\ resp'.target \notin files')
           /\ ~existsSync(resp'.target, files, dirs) =>
                (resp'.status = 404 /\ files' = files)
           /\ BagIn(resp'.target, unlinked) => resp'.status = 404
      /\ (resp'.op = "serveFile" /\ BagIn(resp'.target, unlinked)) => resp'.status = 404
    ]_vars

\* serveFile or deleteFile answered 404 for a path deleteFile had removed.
C5_Witness ==
  /\ resp.op \in {"serveFile", "deleteFile"}
  /\ resp.status = 404
  /\ BagIn(resp.target, unlinked)

\* C6: in the report of every import, whatever the importType and the rows,
\* totalRows is the number of parsed rows and successCount + errorCount does
\* not exceed it; in a students import this holds after every iteration of the
\* loop as well.
C6_CountsWithinTotal ==
  (WasImport /\ resp.status = 200) =>
    /\ resp.importer \in RecognizedTypes
    /\ resp.report.totalRows = Len(resp.data)
    /\ resp.report.successCount + resp.report.errorCount <= resp.report.totalRows
    /\ resp.importer = "students" =>
         \A n \in 0..Len(resp.data) :
           LET at == StudentLoop(resp.data, n) IN
           at.successCount + at.errorCount <= Len(resp.data)

\* A students import counted a success and an error.
C6_Witness ==
  StudentsDone /\ resp.report.successCount > 0 /\ resp.report.errorCount > 0

\* A required field is missing (undefined) or empty ("").
MissingOrEmpty(c) == c.t = "undefined" \/ (c.t = "string" /\ c.s = "")
RowRejected(row) ==
  MissingOrEmpty(row.name) \/ MissingOrEmpty(row.email) \/ MissingOrEmpty(row.registration_no)

\* C7: in a students import a row is counted as an error exactly when one of
\* name, email, registration_no is missing or empty, and as a success
\* otherwise; errors holds the 'Missing required fields' message of each
\* rejected row, with its 1-indexed position, in ascending order.
C7_RejectedIffMissingOrEmpty ==
  StudentsDone =>
    LET data == resp.data
        rejected == SelectSeq([i \in 1..Len(data) |-> i], LAMBDA i : RowRejected(data[i]))
    IN /\ resp.report.totalRows = Len(data)
       /\ resp.report.errorCount = Len(rejected)
       /\ resp.report.successCount = Len(data) - Len(rejected)
       /\ resp.report.errors =
            [j \in 1..Len(rejected) |-> RowError(rejected[j] - 1, MissingFields)]

\* C8: an import of an uploaded file whose importType is given and is not
\* students, scores or attendance is answered 400 'Invalid import type', no
\* importer is called and no row is counted.
C8_UnknownTypeIs400 ==
  (WasImport /\ resp.blobs # {} /\ resp.importType \notin RecognizedTypes \cup {""}) =>
    /\ resp.status = 400 /\ resp.message = "Invalid import type"
    /\ resp.importer = "none"
    /\ resp.report = NoReport

\* C8 as amended: for an importType outside the three, no importer is called
\* and no row is counted on any exit; the answer is 400 'Invalid import type'
\* when the request has a file of a spreadsheet mime type that is there and
\* readable and the importType is not empty, and another 400 or the 500
\* otherwise.
C8_UnknownTypeNoImporter ==
  (WasImport /\ resp.importType \notin RecognizedTypes) =>
    /\ resp.importer = "none"
    /\ resp.report = NoReport
    /\ resp.status \in {400, 500}
    /\ (resp.status = 400 /\ resp.message = "Invalid import type")
         <=> (/\ resp.blobs # {}
              /\ resp.importType # ""
              /\ resp.mimetype \in allowedExcelTypes
              /\ resp.parsed)

\* importType 'grades' with a readable spreadsheet was answered 400 'Invalid
\* import type'.
C8_Witness ==
  /\ WasImport /\ resp.importType = "grades"
  /\ resp.status = 400 /\ resp.message = "Invalid import type"
  /\ resp.parsed

\* data without its k-th row.
Without(data, k) == SubSeq(data, 1, k - 1) \o SubSeq(data, k + 1, Len(data))

\* C9: in a students import a row whose processing throws is counted as one
\* error, 'Row k: <the exception's message>', and the other rows are counted
\* as in the import of the same rows without it: same successes, one error
\* less, the same errors with the row numbers after k moved down by one.
C9_ThrowingRowAlone ==
  StudentsDone =>
    \A k \in 1..Len(resp.data) :
      resp.data[k].isNull =>
        LET rest == importStudentData(Without(resp.data, k))
            before == SelectSeq(rest.errors, LAMBDA e : e[2] < k)
            after == SelectSeq(rest.errors, LAMBDA e : e[2] >= k)
        IN /\ resp.report.successCount = rest.successCount
           /\ resp.report.errorCount = rest.errorCount + 1
           /\ resp.report.errors =
                before \o <<RowError(k - 1, NullRowError)>>
                       \o [j \in 1..Len(after) |-> [after[j] EXCEPT ![2] = @ + 1]]

\* A students import met a throwing row with a row after it that did not throw.
C9_Witness ==
  /\ StudentsDone
  /\ \E k \in 1..(Len(resp.data) - 1) : resp.data[k].isNull /\ ~resp.data[k + 1].isNull

\* C10: a blob is deleted with a 200 once; every deleteFile, serveFile or
\* import that finds its blob gone answers 404, and none answers 500.
C10_GoneIs404 ==
  /\ \A p \in BagToSet(unlinked) : CopiesIn(p, unlinked) = 1
  /\ (/\ resp.op \in {"deleteFile", "serveFile", "importExcelData"}
      /\ resp.target # <<>>
      /\ ~resp.existed /\ resp.target \notin dirs
      /\ resp.op = "importExcelData" =>
           (resp.importType # "" /\ resp.mimetype \in allowedExcelTypes))
     => resp.status = 404

\* C10 as amended: a blob is deleted with a 200 at most once, and a deleteFile
\* that finds a regular file answers 200; a deleteFile or serveFile that finds
\* nothing at its path answers 404, and deleteFile answers 500 only for a
\* directory; an import whose uploaded file was deleted before its handler ran
\* unlinks nothing and answers 500 once it reaches XLSX.readFile (400 on the
\* validation exits before it).
C10_GoneIs404Or500 ==
  /\ \A p \in BagToSet(unlinked) : CopiesIn(p, unlinked) = 1
  /\ resp.op = "deleteFile" =>
       /\ resp.existed => resp.status = 200
       /\ resp.status = 500 => resp.target \in dirs
  /\ (resp.op \in {"deleteFile", "serveFile"} /\ ~resp.existed /\ resp.target \notin dirs)
       => resp.status = 404
  /\ (WasImport /\ resp.blobs # {} /\ ~resp.existed) =>
       /\ resp.touched = {}
       /\ resp.status \in {400, 500}
       /\ resp.status = 500 <=>
            (resp.importType # "" /\ resp.mimetype \in allowedExcelTypes)

\* An import found its uploaded file deleted and answered 500.
C10_Witness ==
  /\ WasImport /\ resp.blobs # {} /\ ~resp.existed
  /\ resp.status = 500
  /\ BagIn(resp.target, unlinked)

====
